---- MODULE Spec2Model ----
(***************************************************************************)
(* Model of the geo-chat demo (index.py, localisation.py, map.py).         *)
(*                                                                         *)
(* The program's state is the module-level list `chat` (the                *)
(* ConversationLog).  Its operations are the three route handlers          *)
(*   GET /            index.py:72-80                                       *)
(*   GET /geo-chat    index.py:83-101                                      *)
(*   POST /geo-chat   index.py:104-110                                     *)
(* The handlers are plain (non-async) functions, which the web framework   *)
(* runs on worker threads.  The POST handler blocks                        *)
(* in localisation.get_answer on an outbound network call; the log is a    *)
(* process-wide list without a lock, so under Spec other requests are      *)
(* handled while a POST waits for its reply.  SeqSpec is the same program  *)
(* when requests are handled strictly one at a time.                       *)
(*                                                                         *)
(* Latitudes and longitudes are floats in the code; here they are integers *)
(* in units of 1e-4 degree (33.7490 is 337490).                            *)
(***************************************************************************)
EXTENDS Integers, Sequences, FiniteSets, TLC

VARIABLES chat, reqs, calls

vars == <<chat, reqs, calls>>

(* Number of HTTP requests the server receives during a run. *)
MaxRequests == 3

(* Values of the form field `message`: lengths 0, 2, 5 (the gate's boundary) and 6. *)
Messages == {"", "Hi", "Paris", "Paris?"}

(* What the hosted model's reply parses to, before schema validation:
   two well-formed StructuredAnswers and two that miss a required field. *)
Replies ==
    { [answer |-> "Paris is the capital of France.", lat |-> 488566, lon |-> 23522],
      [answer |-> "Rome is in Italy.", lat |-> 419028, lon |-> 124964],
      [answer |-> "Somewhere.", lat |-> 0],
      [lat |-> 10, lon |-> 20] }

(* Ways the outbound call itself fails (network, auth, model error). *)
CallErrors == {[error |-> "network"], [error |-> "auth"]}

---------------------------------------------------------------------------
(* index.py:36-44  the seeded module-level list *)
SeedChat ==
    << [role |-> "user", message |-> "Bonjour, où est né Martin Luther King ?"],
       [role |-> "bot", message |-> "Martin Luther King est né à Atlanta, en Géorgie.",
        lat |-> 337490, lon |-> -843880] >>

(* index.py:106  the length gate of the POST handler *)
GateTooLoose(message) == Len(message) >= 5
LongEnough(message) == Len(message) > 5

(* index.py:107  the dict appended for the user's message *)
UserTurn(message) == [role |-> "user", message |-> message]

(* index.py:107-108  list.append *)
PrependTurn(log, turn) == <<turn>> \o log
AppendTurn(log, turn) == Append(log, turn)

(* localisation.py:12-18  LocalisationAnswer / PydanticOutputParser: the three
   fields are required, a reply missing one fails validation. *)
Validates(reply) == {"answer", "lat", "lon"} \subseteq DOMAIN reply

(* localisation.py:34-43  the dict get_answer returns for a validated reply *)
get_answer_swapped(localisation) ==
    [role |-> "bot", message |-> localisation.answer,
     lat |-> localisation.lon, lon |-> localisation.lat]
get_answer_no_lon(localisation) ==
    [role |-> "bot", message |-> localisation.answer, lat |-> localisation.lat]
get_answer(localisation) ==
    [role |-> "bot", message |-> localisation.answer,
     lat |-> localisation.lat, lon |-> localisation.lon]

(* map.py:6-41  the Plotly data and layout of one map; the div id is a fresh
   uuid4 and is left out. *)
get_map_with_marker(lat, lon) ==
    [data |-> << [type |-> "scattermap", lat |-> <<lat>>, lon |-> <<lon>>,
                  mode |-> "markers", size |-> 20, color |-> "#EE4823",
                  text |-> <<"Miam">>] >>,
     center |-> [lat |-> lat, lon |-> lon], zoom |-> 2]

(* index.py:50-68  one element of the rendered sequence: role "user" takes the
   first branch, every other turn the else branch, which reads lat and lon. *)
RenderTurn(message) ==
    IF message.role = "user"
    THEN [cls |-> "container chat-user", text |-> message.message]
    ELSE [cls |-> "container chat-bot", text |-> message.message,
          map |-> get_map_with_marker(message.lat, message.lon)]

(* index.py:64  message["lat"], message["lon"] raise KeyError on a turn without them *)
Renderable(messages) ==
    \A i \in 1..Len(messages) :
        messages[i].role # "user" => {"lat", "lon"} \subseteq DOMAIN messages[i]

(* index.py:47-69 *)
messages_to_fh_skip_user(messages) ==
    LET bots == SelectSeq(messages, LAMBDA m : m.role # "user")
    IN  [i \in 1..Len(bots) |-> RenderTurn(bots[i])]
messages_to_fh(messages) == [i \in 1..Len(messages) |-> RenderTurn(messages[i])]

(* index.py:19-33 *)
get_navigation(current_page) ==
    [home |-> IF current_page = "/" THEN "active" ELSE "",
     geochat |-> IF current_page = "/geo-chat" THEN "active" ELSE ""]

---------------------------------------------------------------------------
(* A request the server has received.  pc is the handler's position:
     "wait"    POST blocked in get_answer on the outbound call (line 108)
     "render"  POST about to build its response (line 110)
     "done"    response returned
     "failed"  an exception left the handler
   pre, reply, userAt, botAt and seen are history: the log when the handler
   started, the validated reply, where the handler's appends landed, and the
   log the response was rendered from. *)
NewReq(method, route, message, pc) ==
    [method |-> method, route |-> route, message |-> message, pc |-> pc,
     pre |-> chat, reply |-> [none |-> TRUE], userAt |-> 0, botAt |-> 0,
     seen |-> <<>>, resp |-> [status |-> "pending"]]

Running == {r \in 1..Len(reqs) : reqs[r].pc \in {"wait", "render"}}

Idle == Running = {}

Init ==
    /\ chat = SeedChat
    /\ reqs = <<>>
    /\ calls = <<>>

(* index.py:72-80  GET / *)
GetHome ==
    /\ Len(reqs) < MaxRequests
    /\ reqs' = Append(reqs,
                 [NewReq("GET", "/", "", "done") EXCEPT
                    !.resp = [status |-> "ok", nav |-> get_navigation("/"),
                              body |-> "Hello world"]])
    /\ UNCHANGED <<chat, calls>>

(* index.py:83-101  GET /geo-chat *)
GetGeoChatClears ==
    /\ Len(reqs) < MaxRequests
    /\ chat' = <<>>
    /\ reqs' = Append(reqs,
                 [NewReq("GET", "/geo-chat", "", "done") EXCEPT
                    !.seen = <<>>,
                    !.resp = [status |-> "ok", nav |-> get_navigation("/geo-chat"),
                              chatbox |-> <<>>, form |-> "message"]])
    /\ UNCHANGED calls
GetGeoChat ==
    /\ Len(reqs) < MaxRequests
    /\ reqs' = Append(reqs,
                 IF Renderable(chat)
                 THEN [NewReq("GET", "/geo-chat", "", "done") EXCEPT
                         !.seen = chat,
                         !.resp = [status |-> "ok", nav |-> get_navigation("/geo-chat"),
                                   chatbox |-> messages_to_fh(chat), form |-> "message"]]
                 ELSE [NewReq("GET", "/geo-chat", "", "failed") EXCEPT
                         !.resp = [status |-> "error"]])
    /\ UNCHANGED <<chat, calls>>

(* index.py:105-108, localisation.py:35-37  POST /geo-chat up to the outbound
   call: the gate, the user turn's append, and chain.invoke sending the question. *)
PostGate(message) ==
    /\ Len(reqs) < MaxRequests
    /\ IF LongEnough(message)
       THEN /\ chat' = AppendTurn(chat, UserTurn(message))
            /\ reqs' = Append(reqs, [NewReq("POST", "/geo-chat", message, "wait")
                                       EXCEPT !.userAt = Len(chat')])
            /\ calls' = Append(calls, [req |-> Len(reqs'), question |-> message])
       ELSE /\ reqs' = Append(reqs, NewReq("POST", "/geo-chat", message, "render"))
            /\ UNCHANGED <<chat, calls>>

(* localisation.py:35-43, index.py:108  the call returns a reply that passes
   validation; get_answer returns its dict and the handler appends it. *)
ResolverReturn(r, reply) ==
    /\ r \in 1..Len(reqs)
    /\ reqs[r].pc = "wait"
    /\ Validates(reply)
    /\ chat' = AppendTurn(chat, get_answer(reply))
    /\ reqs' = [reqs EXCEPT ![r].pc = "render", ![r].reply = reply,
                            ![r].botAt = Len(chat')]
    /\ UNCHANGED calls

(* localisation.py:35-37, index.py:108  chain.invoke raises: the call failed
   (cause in CallErrors) or the reply did not validate.  Nothing catches it:
   line 108's append and line 110 are not reached. *)
ResolverRaiseRetries(r, cause) ==
    /\ r \in 1..Len(reqs)
    /\ reqs[r].pc = "wait"
    /\ cause \in CallErrors \/ (cause \in Replies /\ ~Validates(cause))
    /\ Len(calls) < 2 * MaxRequests
    /\ calls' = Append(calls, [req |-> r, question |-> reqs[r].message])
    /\ UNCHANGED <<chat, reqs>>
ResolverRaiseErrorTurn(r, cause) ==
    /\ r \in 1..Len(reqs)
    /\ reqs[r].pc = "wait"
    /\ cause \in CallErrors \/ (cause \in Replies /\ ~Validates(cause))
    /\ chat' = AppendTurn(chat, [role |-> "bot", message |-> "error"])
    /\ reqs' = [reqs EXCEPT ![r].pc = "failed", ![r].resp = [status |-> "error"]]
    /\ UNCHANGED calls
ResolverRaise(r, cause) ==
    /\ r \in 1..Len(reqs)
    /\ reqs[r].pc = "wait"
    /\ cause \in CallErrors \/ (cause \in Replies /\ ~Validates(cause))
    /\ reqs' = [reqs EXCEPT ![r].pc = "failed", ![r].resp = [status |-> "error"]]
    /\ UNCHANGED <<chat, calls>>

(* index.py:110  the POST handler's response: the chatbox rendered from the log *)
PostRender(r) ==
    /\ r \in 1..Len(reqs)
    /\ reqs[r].pc = "render"
    /\ reqs' = IF Renderable(chat)
               THEN [reqs EXCEPT ![r].pc = "done", ![r].seen = chat,
                                 ![r].resp = [status |-> "ok",
                                              chatbox |-> messages_to_fh(chat)]]
               ELSE [reqs EXCEPT ![r].pc = "failed", ![r].resp = [status |-> "error"]]
    /\ UNCHANGED <<chat, calls>>

Post == \E message \in Messages : PostGate(message)
Return == \E r \in 1..MaxRequests, reply \in Replies : ResolverReturn(r, reply)
Raise == \E r \in 1..MaxRequests, cause \in CallErrors \cup Replies : ResolverRaise(r, cause)
Render == \E r \in 1..MaxRequests : PostRender(r)

(* Requests are handled as they arrive, also while a POST waits for its reply. *)
Next == GetHome \/ GetGeoChat \/ Post \/ Return \/ Raise \/ Render

Spec == Init /\ [][Next]_vars

(* Requests are handled one at a time: a request is taken only when no handler
   is running. *)
SeqAccept == Idle /\ (GetHome \/ GetGeoChat \/ Post)
SeqNext == SeqAccept \/ Return \/ Raise \/ Render

SeqSpec == Init /\ [][SeqNext]_vars

---------------------------------------------------------------------------
(* Vocabulary of the properties. *)
Reqs == 1..Len(reqs)

IsPrefix(s, t) == Len(s) <= Len(t) /\ SubSeq(t, 1, Len(s)) = s

IsPost(q) == q.method = "POST"

IsShortPost(q) == IsPost(q) /\ Len(q.message) <= 5

IsLongPost(q) == IsPost(q) /\ Len(q.message) > 5

BotCount(log) == Cardinality({i \in 1..Len(log) : log[i].role = "bot"})

CallsOf(r) == {i \in 1..Len(calls) : calls[i].req = r}

(* The request a step belongs to: the one received in it or whose record it changes. *)
ActsIn(r) == r > Len(reqs) \/ reqs'[r] # reqs[r]

(* C1: every step of a POST /geo-chat whose message has length <= 5 (0 and 5
   included) leaves the ConversationLog as it was and invokes no resolver call,
   whatever the log holds when the request arrives. *)
C1_ShortPostLeavesLog ==
    [][\A r \in 1..Len(reqs') :
          (IsShortPost(reqs'[r]) /\ ActsIn(r)) => (chat' = chat /\ calls' = calls)]_vars

C1_Witness ==
    \E r \in Reqs, q \in Reqs :
        /\ reqs[r].method = "POST" /\ reqs[r].message = "Paris" /\ reqs[r].pc = "done"
        /\ Len(reqs[r].pre) > Len(SeedChat)
        /\ reqs[q].method = "POST" /\ reqs[q].message = "" /\ reqs[q].pc = "done"

(* C2: with requests handled one at a time, a POST /geo-chat with a message
   longer than 5 whose resolver call succeeded leaves the log equal to the log
   before the request followed by the user turn with the literal message and
   then the bot turn with the resolver's answer, lat and lon. *)
C2_AppendsUserThenBot ==
    \A r \in Reqs :
        (r = Len(reqs) /\ IsLongPost(reqs[r]) /\ reqs[r].pc \in {"render", "done"}) =>
            chat = reqs[r].pre \o
                   << [role |-> "user", message |-> reqs[r].message],
                      [role |-> "bot", message |-> reqs[r].reply.answer,
                       lat |-> reqs[r].reply.lat, lon |-> reqs[r].reply.lon] >>

C2_Witness ==
    \E r \in Reqs :
        /\ r = Len(reqs) /\ IsLongPost(reqs[r]) /\ reqs[r].pc = "done"
        /\ Len(reqs[r].pre) > Len(SeedChat)
        /\ Len(chat) = Len(reqs[r].pre) + 2

(* C3: with requests handled one at a time, a POST /geo-chat whose resolver
   call raised leaves the log identical to the log before the request. *)
C3_AppendPairAtomic ==
    \A r \in Reqs :
        (r = Len(reqs) /\ reqs[r].pc = "failed") => chat = reqs[r].pre

(* C4: the step in which a resolver call raises ends the request as failed
   and leaves the number of bot turns in the log as it was. *)
C4_NoBotTurnOnFailure ==
    [][\A r \in Reqs :
          (reqs[r].pc = "wait" /\ reqs'[r].pc \notin {"wait", "render"}) =>
              /\ reqs'[r].pc = "failed"
              /\ reqs'[r].resp.status = "error"
              /\ BotCount(chat') = BotCount(chat)
              /\ Len(chat') = Len(chat)]_vars

C4_Witness ==
    \E r \in Reqs :
        /\ reqs[r].pc = "failed" /\ IsLongPost(reqs[r])
        /\ BotCount(chat) = BotCount(reqs[r].pre)
        /\ Len(reqs[r].pre) > Len(SeedChat)

(* C5: the log before any step is a prefix of the log after it. *)
C5_AppendOnly == [][IsPrefix(chat, chat')]_vars

C5_Witness ==
    /\ Len(chat) >= Len(SeedChat) + 3
    /\ \E r \in Reqs : reqs[r].pc = "failed"
    /\ \E r \in Reqs : reqs[r].method = "GET" /\ reqs[r].route = "/geo-chat"

(* C6: the chatbox returned by GET /geo-chat and by POST /geo-chat (short
   input included) has one element per turn of the log it was rendered from,
   in the log's order; a user turn gives a user element without a map, a bot
   turn a bot element whose map has exactly one marker, at the turn's lat/lon.
   The log it was rendered from extends the log at the request's start, holds
   the request's own turns, and is a prefix of every later log. *)
C6_RenderMatchesLog ==
    \A r \in Reqs :
        (reqs[r].route = "/geo-chat" /\ reqs[r].pc = "done") =>
            LET box == reqs[r].resp.chatbox
                log == reqs[r].seen
            IN  /\ IsPrefix(reqs[r].pre, log) /\ IsPrefix(log, chat)
                /\ reqs[r].userAt <= Len(log) /\ reqs[r].botAt <= Len(log)
                /\ Len(box) = Len(log)
                /\ \A i \in 1..Len(log) :
                      /\ box[i].text = log[i].message
                      /\ log[i].role = "user" =>
                            /\ box[i].cls = "container chat-user"
                            /\ "map" \notin DOMAIN box[i]
                      /\ log[i].role = "bot" =>
                            /\ box[i].cls = "container chat-bot"
                            /\ Len(box[i].map.data) = 1
                            /\ box[i].map.data[1].lat = <<log[i].lat>>
                            /\ box[i].map.data[1].lon = <<log[i].lon>>

C6_Witness ==
    \E r \in Reqs, q \in Reqs :
        /\ IsShortPost(reqs[r]) /\ reqs[r].pc = "done"
        /\ Len(reqs[r].resp.chatbox) = Len(SeedChat) + 2
        /\ reqs[q].method = "GET" /\ reqs[q].route = "/geo-chat"
        /\ Len(reqs[q].resp.chatbox) = Len(SeedChat) + 2

(* C7: every turn of the log has role user or bot; a user turn has neither lat
   nor lon, a bot turn has both; no response fails while rendering. *)
C7_TurnShape ==
    /\ \A i \in 1..Len(chat) :
          /\ chat[i].role \in {"user", "bot"}
          /\ chat[i].role = "user" => DOMAIN chat[i] = {"role", "message"}
          /\ chat[i].role = "bot" => DOMAIN chat[i] = {"role", "message", "lat", "lon"}
    /\ \A r \in Reqs :
          reqs[r].pc = "failed" => (IsLongPost(reqs[r]) /\ reqs[r].botAt = 0)

C7_Witness ==
    /\ BotCount(chat) = 2
    /\ Len(chat) = 5
    /\ \E r \in Reqs : reqs[r].pc = "done" /\ reqs[r].botAt = Len(chat)

(* C8: the resolver is invoked once for each POST with a message longer than
   5, with that message as the question, and never for any other request. *)
C8_OneCallPerLongPost ==
    /\ \A r \in Reqs :
          /\ Cardinality(CallsOf(r)) = IF IsLongPost(reqs[r]) THEN 1 ELSE 0
          /\ \A i \in CallsOf(r) : calls[i].question = reqs[r].message
    /\ Len(calls) = Cardinality({r \in Reqs : IsLongPost(reqs[r])})

C8_Witness ==
    /\ Len(calls) = 1
    /\ \E r \in Reqs : reqs[r].pc = "failed"
    /\ \E r \in Reqs : reqs[r].method = "GET"
    /\ \E r \in Reqs : IsShortPost(reqs[r]) /\ reqs[r].pc = "done"

(* C9 as claimed: the bot turn of a POST is immediately after the same
   request's user turn, also with two POSTs in flight. *)
C9_BotTurnAdjacent ==
    \A r \in Reqs : reqs[r].botAt # 0 => reqs[r].botAt = reqs[r].userAt + 1

(* C9 as amended: the bot turn of a POST is after the same request's user
   turn, and every turn between the two is a turn of another POST request. *)
C9_BotTurnAfterOwnUserTurn ==
    \A r \in Reqs :
        reqs[r].botAt # 0 =>
            /\ 0 < reqs[r].userAt /\ reqs[r].userAt < reqs[r].botAt
            /\ reqs[r].botAt <= Len(chat)
            /\ chat[reqs[r].userAt] = [role |-> "user", message |-> reqs[r].message]
            /\ chat[reqs[r].botAt].role = "bot"
            /\ chat[reqs[r].botAt].message = reqs[r].reply.answer
            /\ \A i \in (reqs[r].userAt + 1)..(reqs[r].botAt - 1) :
                  \E q \in Reqs \ {r} :
                      IsLongPost(reqs[q]) /\ i \in {reqs[q].userAt, reqs[q].botAt}

C9_Witness ==
    \E r \in Reqs, q \in Reqs :
        /\ reqs[r].botAt > reqs[r].userAt + 2
        /\ reqs[q].userAt = reqs[r].userAt + 1
        /\ reqs[q].botAt = reqs[r].userAt + 2

(* C10: a step that handles GET / or GET /geo-chat leaves the log as it was
   and invokes no resolver call. *)
C10_GetReadOnly ==
    [][\A r \in 1..Len(reqs') :
          (reqs'[r].method = "GET" /\ ActsIn(r)) => (chat' = chat /\ calls' = calls)]_vars

C10_Witness ==
    \E r \in Reqs, q \in Reqs :
        /\ r < q
        /\ reqs[r].method = "GET" /\ reqs[r].route = "/geo-chat"
        /\ reqs[q].method = "GET" /\ reqs[q].route = "/"
        /\ Len(reqs[r].resp.chatbox) > Len(SeedChat)
        /\ reqs[q].pre = reqs[r].seen

====
